---- MODULE Spec2Model ----
(***************************************************************************)
(* The superheroes API server (backend/src/server.ts): the four GET        *)
(* routes over the catalog file data/superheroes.json, as a state machine  *)
(* of in-flight requests.  A handler runs in two atomic segments, split at *)
(* its single `await loadSuperheroes()`: the synchronous part up to the    *)
(* await, and the continuation run from the fs.readFile callback.          *)
(*                                                                         *)
(* JavaScript strings are sequences of one-character strings, so that      *)
(* Number(...), String(...) and RegExp matching are computed, not assumed. *)
(***************************************************************************)
EXTENDS Integers, Sequences, FiniteSets, TLC

\* ------------------------------------------------------------------ bounds
\* Request slots that may be in flight at once.
NumReq == 2
\* Catalog ids are drawn from 1..MaxId.
MaxId == 3
\* Longest catalog the file may hold.
MaxHeroes == 2
\* Powerstat values of the comparison specification are drawn from 0..MaxStat.
MaxStat == 1
\* Rows of the frontend's heroes table.
MaxRows == 4
\* Checkbox clicks the user makes before comparing or starting over.
MaxClicks == 5

Reqs == 1..NumReq

\* ------------------------------------------------------- JavaScript values
WhiteSpace == {" "}
DigitChars == <<"0", "1", "2", "3", "4", "5", "6", "7", "8", "9">>
HexChars == <<"0", "1", "2", "3", "4", "5", "6", "7", "8", "9",
              "a", "b", "c", "d", "e", "f">>
UpperHex == <<"0", "1", "2", "3", "4", "5", "6", "7", "8", "9",
              "A", "B", "C", "D", "E", "F">>
INFINITY == <<"I", "n", "f", "i", "n", "i", "t", "y">>

\* A JavaScript number: NaN, +/-Infinity, or the finite decimal m / 10^s in
\* lowest terms of s (so 1.0 and 1 are the same value).
NaN == [kind |-> "NaN", m |-> 0, s |-> 0]
Inf(sign) == [kind |-> "Inf", m |-> sign, s |-> 0]

RECURSIVE Pow10(_)
Pow10(n) == IF n <= 0 THEN 1 ELSE 10 * Pow10(n - 1)

RECURSIVE Normalize(_, _)
Normalize(m, s) ==
    IF m = 0 THEN [kind |-> "Num", m |-> 0, s |-> 0]
    ELSE IF s < 0 THEN [kind |-> "Num", m |-> m * Pow10(0 - s), s |-> 0]
    ELSE IF s > 0 /\ m % 10 = 0 THEN Normalize(m \div 10, s - 1)
    ELSE [kind |-> "Num", m |-> m, s |-> s]

FromInt(n) == Normalize(n, 0)

isNaN(x) == x.kind = "NaN"

\* x === y on two numbers: NaN equals nothing, not even itself.
StrictEquals(x, y) == ~isNaN(x) /\ ~isNaN(y) /\ x = y

\* ---------------------------------------------------- Number(string)
RECURSIVE LTrim(_)
LTrim(str) ==
    IF str # <<>> /\ Head(str) \in WhiteSpace THEN LTrim(Tail(str)) ELSE str

RECURSIVE RTrim(_)
RTrim(str) ==
    IF str # <<>> /\ str[Len(str)] \in WhiteSpace
    THEN RTrim(SubSeq(str, 1, Len(str) - 1)) ELSE str

Trim(str) == RTrim(LTrim(str))

IndexIn(chars, c) ==
    IF \E i \in DOMAIN chars : chars[i] = c
    THEN CHOOSE i \in DOMAIN chars : chars[i] = c
    ELSE 0

\* The value of digit c in the given radix, or -1.
DigitValue(c, radix) ==
    LET lo == IndexIn(HexChars, c)
        up == IndexIn(UpperHex, c)
        v == IF lo > 0 THEN lo - 1 ELSE up - 1
    IN IF v >= 0 /\ v < radix THEN v ELSE -1

AllDigits(str, radix) == \A i \in DOMAIN str : DigitValue(str[i], radix) >= 0

RECURSIVE DigitsValue(_, _)
DigitsValue(str, radix) ==
    IF str = <<>> THEN 0
    ELSE DigitsValue(SubSeq(str, 1, Len(str) - 1), radix) * radix
         + DigitValue(str[Len(str)], radix)

\* First position of a character of `set` in str, or 0.
FirstOf(str, set) ==
    IF \E i \in DOMAIN str : str[i] \in set
    THEN CHOOSE i \in DOMAIN str :
            str[i] \in set /\ \A j \in 1..(i - 1) : str[j] \notin set
    ELSE 0

HasSign(str) == str # <<>> /\ Head(str) \in {"+", "-"}
SignOf(str) == IF str # <<>> /\ Head(str) = "-" THEN -1 ELSE 1
Unsigned(str) == IF HasSign(str) THEN Tail(str) ELSE str

\* 0x.., 0o.., 0b..: the radix of a NonDecimalIntegerLiteral, or 0.
RadixOf(str) ==
    IF Len(str) >= 3 /\ str[1] = "0"
    THEN CASE str[2] \in {"x", "X"} -> 16
           [] str[2] \in {"o", "O"} -> 8
           [] str[2] \in {"b", "B"} -> 2
           [] OTHER -> 0
    ELSE 0

\* An unsigned StrDecimalLiteral other than Infinity: digits, an optional
\* fraction, an optional exponent.  NaN when str is none.
DecimalValue(str, sign) ==
    LET ePos == FirstOf(str, {"e", "E"})
        mant == IF ePos = 0 THEN str ELSE SubSeq(str, 1, ePos - 1)
        expo == IF ePos = 0 THEN <<>> ELSE SubSeq(str, ePos + 1, Len(str))
        dot == FirstOf(mant, {"."})
        ip == IF dot = 0 THEN mant ELSE SubSeq(mant, 1, dot - 1)
        fp == IF dot = 0 THEN <<>> ELSE SubSeq(mant, dot + 1, Len(mant))
        ex == Unsigned(expo)
        mantOk == AllDigits(ip, 10) /\ AllDigits(fp, 10) /\ Len(ip) + Len(fp) > 0
        expOk == ePos = 0 \/ (ex # <<>> /\ AllDigits(ex, 10))
    IN IF mantOk /\ expOk
       THEN Normalize(sign * DigitsValue(ip \o fp, 10),
                      Len(fp) - SignOf(expo) * DigitsValue(ex, 10))
       ELSE NaN

\* StringToNumber: white space is trimmed, the empty string is 0, and
\* anything that is no numeric literal is NaN.
StringToNumber(str) ==
    LET t == Trim(str)
        u == Unsigned(t)
    IN IF t = <<>> THEN FromInt(0)
       ELSE IF RadixOf(t) > 0
       THEN IF AllDigits(SubSeq(t, 3, Len(t)), RadixOf(t))
            THEN FromInt(DigitsValue(SubSeq(t, 3, Len(t)), RadixOf(t)))
            ELSE NaN
       ELSE IF u = INFINITY THEN Inf(SignOf(t))
       ELSE DecimalValue(u, SignOf(t))

\* A query parameter: absent (req.query.x is undefined) or a string.
Missing == [chars |-> <<>>, present |-> FALSE]
Str(chars) == [chars |-> chars, present |-> TRUE]

\* Number(req.query.x): Number(undefined) is NaN.
Number(q) == IF q.present THEN StringToNumber(q.chars) ELSE NaN

\* String(n) of an integer n >= 0: its decimal digits.
RECURSIVE NumberToString(_)
NumberToString(n) ==
    IF n < 10 THEN <<DigitChars[n + 1]>>
    ELSE NumberToString(n \div 10) \o <<DigitChars[(n % 10) + 1]>>

\* RegExp.test for a literal pattern: the pattern occurs somewhere in str.
Matches(str, pattern) ==
    \E i \in 1..(Len(str) - Len(pattern) + 1) :
        SubSeq(str, i, i + Len(pattern) - 1) = pattern

\* A value that is a number or a string (the winner fields mix both).
JsNum(n) == [type |-> "number", num |-> n]
JsStr(str) == [type |-> "string", str |-> str]

\* ---------------------------------------------------------------- catalog
categoriesOrder ==
    <<"intelligence", "strength", "speed", "durability", "power", "combat">>
Categories == {categoriesOrder[i] : i \in DOMAIN categoriesOrder}

Powerstats(a, b, c, d, e, f) ==
    [intelligence |-> a, strength |-> b, speed |-> c,
     durability |-> d, power |-> e, combat |-> f]

Hero(id, name, stats) ==
    [id |-> id, name |-> name, image |-> "image.jpg", powerstats |-> stats]

\* The heroes a catalog file may list.  Hero 2's statline is the one the
\* backend test reads; hero 1 ties it 3-3 and hero 3 beats it 5-1.
PoolStats(i) ==
    CASE i = 1 -> Powerstats(38, 100, 17, 80, 24, 64)
      [] i = 2 -> Powerstats(100, 18, 23, 28, 32, 32)
      [] i = 3 -> Powerstats(90, 55, 43, 80, 62, 82)
      [] OTHER -> Powerstats((7 * i) % 101, (11 * i) % 101, (13 * i) % 101,
                             (17 * i) % 101, (19 * i) % 101, (23 * i) % 101)
PoolName(i) == IF i = 1 THEN "A-Bomb" ELSE "Hero"
PoolHero(i) == Hero(i, PoolName(i), PoolStats(i))

\* What reading and parsing data/superheroes.json gives: the array, or an
\* error (the file is missing, or is not JSON).
Unreadable == [ok |-> FALSE, heroes |-> <<>>]
Readable(heroes) == [ok |-> TRUE, heroes |-> heroes]

IdLists ==
    {ids \in UNION {[1..n -> 1..MaxId] : n \in 0..MaxHeroes} :
        \A i, j \in DOMAIN ids : i # j => ids[i] # ids[j]}
Catalogs == {Readable([i \in DOMAIN ids |-> PoolHero(ids[i])]) : ids \in IdLists}
CatalogStates == Catalogs \cup {Unreadable}

\* ------------------------------------------------------------- responses
MSG_INVALID_IDS == <<"B", "o", "t", "h", " ", "i", "d", "1", " ", "a", "n", "d", " ", "i", "d", "2", " ", "q", "u", "e", "r", "y", " ", "p", "a", "r", "a", "m", "e", "t", "e", "r", "s", " ", "m", "u", "s", "t", " ", "b", "e", " ", "v", "a", "l", "i", "d", " ", "n", "u", "m", "b", "e", "r", "s", ".">>
MSG_NOT_FOUND == <<"S", "u", "p", "e", "r", "h", "e", "r", "o", " ", "n", "o", "t", " ", "f", "o", "u", "n", "d">>
MSG_INTERNAL == <<"I", "n", "t", "e", "r", "n", "a", "l", " ", "S", "e", "r", "v", "e", "r", " ", "E", "r", "r", "o", "r">>

\* res.status(n).json(body) and res.status(n).send(text); res.json(body) is 200.
Json(status, body) == [status |-> status, type |-> "json", body |-> body]
Send(status, text) == [status |-> status, type |-> "text", body |-> [text |-> text]]
NoResponse == [status |-> 0, type |-> "none", body |-> [none |-> TRUE]]

\* ------------------------------------------------------ compare handler
\* Mutant: the check written with && in place of ||.
InvalidIds_And(id1, id2) == isNaN(id1) /\ isNaN(id2)

\* isNaN(id1) || isNaN(id2)
InvalidIds(id1, id2) == isNaN(id1) \/ isNaN(id2)

BadRequest == Json(400, [error |-> MSG_INVALID_IDS])

\* superheroes.find(h => h.id === id): the index of the first match, 0 for
\* undefined.
Find(superheroes, id) ==
    IF \E i \in DOMAIN superheroes : StrictEquals(FromInt(superheroes[i].id), id)
    THEN CHOOSE i \in DOMAIN superheroes :
            /\ StrictEquals(FromInt(superheroes[i].id), id)
            /\ \A j \in 1..(i - 1) : ~StrictEquals(FromInt(superheroes[j].id), id)
    ELSE 0

\* Mutant: the final else is missing, so that `winner` stays undefined on
\* equal values.
CategoryWinner_NoElse(id1_value, id2_value) ==
    IF id1_value > id2_value THEN JsNum(1)
    ELSE IF id2_value > id1_value THEN JsNum(2)
    ELSE [type |-> "undefined"]

\* Mutant: >= in place of the first >, so that a tie goes to the first hero.
CategoryWinner_GE(id1_value, id2_value) ==
    IF id1_value >= id2_value THEN JsNum(1)
    ELSE IF id2_value > id1_value THEN JsNum(2)
    ELSE JsStr("tie")

\* Mutant: >= in place of the second >, so that a tie goes to the second hero.
CategoryWinner_TieToSecond(id1_value, id2_value) ==
    IF id1_value > id2_value THEN JsNum(1)
    ELSE IF id2_value >= id1_value THEN JsNum(2)
    ELSE JsStr("tie")

\* The winner of one category.
CategoryWinner(id1_value, id2_value) ==
    IF id1_value > id2_value THEN JsNum(1)
    ELSE IF id2_value > id1_value THEN JsNum(2)
    ELSE JsStr("tie")

\* hero.powerstats[key] is a value, not undefined.
HasValue(hero, key) == key \in DOMAIN hero.powerstats

\* The categoriesOrder.map callback's return value, as res.json writes it.
\* A key the statline lacks reads as undefined: both > comparisons are then
\* false, so the winner is 'tie', and JSON.stringify leaves the undefined
\* value out of the object.
CategoryResult(cat, hero1, hero2) ==
    CASE HasValue(hero1, cat) /\ HasValue(hero2, cat) ->
            [name |-> cat,
             winner |-> CategoryWinner(hero1.powerstats[cat], hero2.powerstats[cat]),
             id1_value |-> hero1.powerstats[cat],
             id2_value |-> hero2.powerstats[cat]]
      [] HasValue(hero1, cat) /\ ~HasValue(hero2, cat) ->
            [name |-> cat, winner |-> JsStr("tie"),
             id1_value |-> hero1.powerstats[cat]]
      [] ~HasValue(hero1, cat) /\ HasValue(hero2, cat) ->
            [name |-> cat, winner |-> JsStr("tie"),
             id2_value |-> hero2.powerstats[cat]]
      [] OTHER -> [name |-> cat, winner |-> JsStr("tie")]

\* Mutant: the categories are walked in the alphabetical order of their keys.
CategoryResults_Alphabetical(hero1, hero2) ==
    LET order == <<"combat", "durability", "intelligence", "power", "speed",
                   "strength">>
    IN [i \in DOMAIN order |-> CategoryResult(order[i], hero1, hero2)]

CategoryResults(hero1, hero2) ==
    [i \in DOMAIN categoriesOrder |-> CategoryResult(categoriesOrder[i], hero1, hero2)]

\* id1Wins / id2Wins after the map: the callbacks that took the branch of
\* `winner`.
RECURSIVE Wins(_, _)
Wins(categories, winner) ==
    IF categories = <<>> THEN 0
    ELSE Wins(Tail(categories), winner)
         + (IF Head(categories).winner = winner THEN 1 ELSE 0)

\* Mutant: an equal tally goes to the first hero.
OverallWinner_GE(id1Wins, id2Wins) ==
    IF id1Wins >= id2Wins THEN JsNum(1)
    ELSE IF id2Wins > id1Wins THEN JsNum(2)
    ELSE JsStr("tie")

\* Mutant: the overall winner is tied only when no category was won.
OverallWinner_TieOnlyIfNoWins(id1Wins, id2Wins) ==
    IF id1Wins > id2Wins THEN JsNum(1)
    ELSE IF id2Wins > id1Wins \/ id2Wins > 0 THEN JsNum(2)
    ELSE JsStr("tie")

OverallWinner(id1Wins, id2Wins) ==
    IF id1Wins > id2Wins THEN JsNum(1)
    ELSE IF id2Wins > id1Wins THEN JsNum(2)
    ELSE JsStr("tie")

CompareNotFound == Json(404, [error |-> MSG_NOT_FOUND])
InternalServerError == Send(500, MSG_INTERNAL)

\* Mutant: the ids are echoed from the entities in catalog order.
ComparisonResult_IdsSorted(id1, id2, hero1, hero2) ==
    LET categories == CategoryResults(hero1, hero2)
        lo == IF hero1.id <= hero2.id THEN hero1.id ELSE hero2.id
        hi == IF hero1.id <= hero2.id THEN hero2.id ELSE hero1.id
    IN Json(200, [id1 |-> FromInt(lo), id2 |-> FromInt(hi),
                  categories |-> categories,
                  overall_winner |-> OverallWinner(Wins(categories, JsNum(1)),
                                                   Wins(categories, JsNum(2)))])

ComparisonResult(id1, id2, hero1, hero2) ==
    LET categories == CategoryResults(hero1, hero2)
    IN Json(200, [id1 |-> id1, id2 |-> id2, categories |-> categories,
                  overall_winner |-> OverallWinner(Wins(categories, JsNum(1)),
                                                   Wins(categories, JsNum(2)))])

\* hero.powerstats is undefined, so that hero.powerstats[key] throws a
\* TypeError.
NoStatline(hero) == "powerstats" \notin DOMAIN hero

\* The map callback throws: both heroes were found and one has no powerstats.
CompareThrows(id1, id2, superheroes) ==
    LET hero1 == Find(superheroes, id1)
        hero2 == Find(superheroes, id2)
    IN /\ hero1 # 0 /\ hero2 # 0
       /\ NoStatline(superheroes[hero1]) \/ NoStatline(superheroes[hero2])

\* Mutant: only the first lookup is checked; a missing second hero then
\* throws on hero2.powerstats and the catch block answers 500.
CompareLoaded_OnlyHero1(id1, id2, superheroes) ==
    LET hero1 == Find(superheroes, id1)
        hero2 == Find(superheroes, id2)
    IN IF hero1 = 0 THEN CompareNotFound
       ELSE IF hero2 = 0 THEN InternalServerError
       ELSE ComparisonResult(id1, id2, superheroes[hero1], superheroes[hero2])

\* Mutant: the 404 names the identifier that was not found.
CompareLoaded_NamesMissing(id1, id2, superheroes) ==
    LET hero1 == Find(superheroes, id1)
        hero2 == Find(superheroes, id2)
    IN IF hero1 = 0
       THEN Json(404, [error |-> MSG_NOT_FOUND \o <<":", " ", "i", "d", "1">>])
       ELSE IF hero2 = 0
       THEN Json(404, [error |-> MSG_NOT_FOUND \o <<":", " ", "i", "d", "2">>])
       ELSE ComparisonResult(id1, id2, superheroes[hero1], superheroes[hero2])

\* The handler from the resolved load on: both lookups, then the 404 or
\* the comparison.
CompareLoaded(id1, id2, superheroes) ==
    LET hero1 == Find(superheroes, id1)
        hero2 == Find(superheroes, id2)
    IN IF hero1 = 0 \/ hero2 = 0
       THEN CompareNotFound
       ELSE ComparisonResult(id1, id2, superheroes[hero1], superheroes[hero2])

\* ------------------------------------------- entity and powerstats handlers
\* superheroes.find(hero => String(hero.id) === String(id))
FindByString(superheroes, id) ==
    IF \E i \in DOMAIN superheroes : NumberToString(superheroes[i].id) = id
    THEN CHOOSE i \in DOMAIN superheroes :
            /\ NumberToString(superheroes[i].id) = id
            /\ \A j \in 1..(i - 1) : NumberToString(superheroes[j].id) # id
    ELSE 0

\* Mutant: the id is validated as a number first, as compare does.
EntityLoaded_Validates(id, superheroes) ==
    LET superhero == FindByString(superheroes, id)
    IN IF isNaN(StringToNumber(id)) THEN BadRequest
       ELSE IF superhero # 0 THEN Json(200, superheroes[superhero])
       ELSE Send(404, MSG_NOT_FOUND)

EntityLoaded(id, superheroes) ==
    LET superhero == FindByString(superheroes, id)
    IN IF superhero # 0 THEN Json(200, superheroes[superhero])
       ELSE Send(404, MSG_NOT_FOUND)

\* Mutant: the whole entity is sent, as the :id route does.
PowerstatsLoaded_WholeEntity(id, superheroes) ==
    LET superhero == FindByString(superheroes, id)
    IN IF superhero # 0 THEN Json(200, superheroes[superhero])
       ELSE Send(404, MSG_NOT_FOUND)

\* Mutant: the hero is looked up by number, as compare does.
PowerstatsLoaded_ByNumber(id, superheroes) ==
    LET superhero == IF isNaN(StringToNumber(id)) THEN 0
                     ELSE Find(superheroes, StringToNumber(id))
    IN IF superhero # 0 THEN Json(200, superheroes[superhero].powerstats)
       ELSE Send(404, MSG_NOT_FOUND)

PowerstatsLoaded(id, superheroes) ==
    LET superhero == FindByString(superheroes, id)
    IN IF superhero # 0 THEN Json(200, superheroes[superhero].powerstats)
       ELSE Send(404, MSG_NOT_FOUND)

\* Mutant: an empty catalog is answered as not found.
ListLoaded_EmptyGuard(superheroes) ==
    IF superheroes = <<>> THEN Send(404, MSG_NOT_FOUND)
    ELSE Json(200, [array |-> superheroes])

ListLoaded(superheroes) == Json(200, [array |-> superheroes])

\* ------------------------------------------------------------------ state
VARIABLES
    catalog,    \* what data/superheroes.json holds now (the server never writes it)
    req,        \* per request slot: the handler's position and locals
    ui          \* the React state of the frontend's App component

vars == <<catalog, req, ui>>

\* A slot no request occupies.  loads, errors and sent count the calls of
\* loadSuperheroes, of console.error and of res.json or res.send.
Idle ==
    [pc |-> "idle", route |-> "none", q1 |-> Missing, q2 |-> Missing,
     id1 |-> NaN, id2 |-> NaN, loads |-> 0, errors |-> 0, sent |-> 0,
     data |-> Unreadable, resp |-> NoResponse]

\* The handler suspended at `await loadSuperheroes()`.
Awaiting(route, q1, q2, id1, id2) ==
    [Idle EXCEPT !.pc = "loading", !.route = route, !.q1 = q1, !.q2 = q2,
                 !.id1 = id1, !.id2 = id2, !.loads = 1]

\* ---------------------------------------------------------------- actions
\* GET /api/superheroes/compare?id1=..&id2=.. up to the await: the 400, or
\* the load is started.
CompareRequest(r, q1, q2) ==
    /\ req[r].pc = "idle"
    /\ LET id1 == Number(q1)
           id2 == Number(q2)
       IN req' = [req EXCEPT ![r] =
                    IF InvalidIds(id1, id2)
                    THEN [Idle EXCEPT !.pc = "done", !.sent = 1, !.route = "compare",
                                      !.q1 = q1, !.q2 = q2, !.id1 = id1,
                                      !.id2 = id2, !.resp = BadRequest]
                    ELSE Awaiting("compare", q1, q2, id1, id2)]
    /\ UNCHANGED <<catalog, ui>>

\* GET /api/superheroes up to the await.
ListRequest(r) ==
    /\ req[r].pc = "idle"
    /\ req' = [req EXCEPT ![r] = Awaiting("list", Missing, Missing, NaN, NaN)]
    /\ UNCHANGED <<catalog, ui>>

\* GET /api/superheroes/:id up to the await; q1 holds req.params.id.
EntityRequest(r, id) ==
    /\ req[r].pc = "idle"
    /\ req' = [req EXCEPT ![r] = Awaiting("entity", Str(id), Missing, NaN, NaN)]
    /\ UNCHANGED <<catalog, ui>>

\* GET /api/superheroes/:id/powerstats up to the await.
PowerstatsRequest(r, id) ==
    /\ req[r].pc = "idle"
    /\ req' = [req EXCEPT ![r] = Awaiting("powerstats", Str(id), Missing, NaN, NaN)]
    /\ UNCHANGED <<catalog, ui>>

\* ----------------------------------------------------------------- routing
\* A path below /api/superheroes is the sequence of its segments; a pattern
\* segment is a literal or a named parameter.
Literal(text) == [kind |-> "literal", text |-> text]
Param(name) == [kind |-> "param", text |-> name]

COMPARE == <<"c", "o", "m", "p", "a", "r", "e">>
POWERSTATS == <<"p", "o", "w", "e", "r", "s", "t", "a", "t", "s">>

Route(handler, pattern) == [handler |-> handler, pattern |-> pattern]

\* Mutant: the ':id' route is registered before the compare route.
Routes_IdFirst ==
    << Route("list", <<>>),
       Route("entity", <<Param("id")>>),
       Route("compare", <<Literal(COMPARE)>>),
       Route("powerstats", <<Param("id"), Literal(POWERSTATS)>>) >>

\* The app.get calls, in the order the file makes them.
Routes ==
    << Route("list", <<>>),
       Route("compare", <<Literal(COMPARE)>>),
       Route("entity", <<Param("id")>>),
       Route("powerstats", <<Param("id"), Literal(POWERSTATS)>>) >>

\* The pattern matches the path: as many segments, each literal equal to its
\* segment, each parameter taking a segment that is not empty.
PathMatches(pattern, path) ==
    /\ Len(pattern) = Len(path)
    /\ \A i \in DOMAIN pattern :
          IF pattern[i].kind = "literal" THEN path[i] = pattern[i].text
          ELSE path[i] # <<>>

\* Express runs the first registered route that matches; "none" if none does.
Dispatch(path) ==
    IF \E i \in DOMAIN Routes : PathMatches(Routes[i].pattern, path)
    THEN LET first == CHOOSE i \in DOMAIN Routes :
                         /\ PathMatches(Routes[i].pattern, path)
                         /\ \A j \in 1..(i - 1) : ~PathMatches(Routes[j].pattern, path)
         IN Routes[first].handler
    ELSE "none"

\* GET /api/superheroes<path>?id1=..&id2=..: the router picks the handler,
\* which runs up to its await.
HttpGet(r, path, q1, q2) ==
    LET handler == Dispatch(path)
    IN CASE handler = "compare" -> CompareRequest(r, q1, q2)
         [] handler = "list" -> ListRequest(r)
         [] handler = "entity" -> EntityRequest(r, path[1])
         [] handler = "powerstats" -> PowerstatsRequest(r, path[1])
         [] OTHER -> FALSE

\* What the handler of slot s answers once the load resolved with superheroes.
Loaded(s, superheroes) ==
    CASE s.route = "compare" -> CompareLoaded(s.id1, s.id2, superheroes)
      [] s.route = "entity" -> EntityLoaded(s.q1.chars, superheroes)
      [] s.route = "powerstats" -> PowerstatsLoaded(s.q1.chars, superheroes)
      [] OTHER -> ListLoaded(superheroes)

\* The handler of slot s throws after the load resolved with superheroes.
Throws(s, superheroes) ==
    s.route = "compare" /\ CompareThrows(s.id1, s.id2, superheroes)

\* Mutant: a failed read resolves with an empty array instead of rejecting.
ReadFileCallback_EmptyOnError(r) ==
    /\ req[r].pc = "loading"
    /\ req' = [req EXCEPT ![r] =
                 IF ~Throws(req[r], catalog.heroes)
                 THEN [@ EXCEPT !.pc = "done", !.sent = @ + 1, !.data = catalog,
                                !.resp = Loaded(req[r], catalog.heroes)]
                 ELSE [@ EXCEPT !.pc = "done", !.sent = @ + 1, !.data = catalog,
                                !.errors = @ + 1,
                                !.resp = InternalServerError]]
    /\ UNCHANGED <<catalog, ui>>

\* Mutant: the parsed file is kept after the first load and later loads
\* resolve with what an answered request still holds.
ReadFileCallback_Cached(r) ==
    /\ req[r].pc = "loading"
    /\ LET holders == {o \in Reqs \ {r} : req[o].pc = "done" /\ req[o].loads = 1}
           cached == IF holders = {} THEN catalog
                     ELSE req[CHOOSE o \in holders : TRUE].data
       IN req' = [req EXCEPT ![r] =
                    IF cached.ok /\ ~Throws(req[r], cached.heroes)
                    THEN [@ EXCEPT !.pc = "done", !.sent = @ + 1, !.data = cached,
                                   !.resp = Loaded(req[r], cached.heroes)]
                    ELSE [@ EXCEPT !.pc = "done", !.sent = @ + 1, !.data = cached,
                                   !.errors = @ + 1,
                                   !.resp = InternalServerError]]
    /\ UNCHANGED <<catalog, ui>>

\* The wins of `winner` in the comparisons the slots 1..n other than r have
\* answered and still hold.
RECURSIVE WinsOfOthers(_, _, _)
WinsOfOthers(r, n, winner) ==
    IF n = 0 THEN 0
    ELSE WinsOfOthers(r, n - 1, winner)
         + (IF n # r /\ req[n].pc = "done" /\ req[n].route = "compare"
                     /\ req[n].resp.status = 200
            THEN Wins(req[n].resp.body.categories, winner) ELSE 0)

\* Mutant: id1Wins and id2Wins are module-level counters, so a comparison
\* starts from the tallies of the comparisons answered beside it.
ReadFileCallback_SharedTally(r) ==
    /\ req[r].pc = "loading"
    /\ LET own == Loaded(req[r], catalog.heroes)
           shared ==
               IF req[r].route = "compare" /\ own.status = 200
               THEN [own EXCEPT !.body.overall_winner =
                        OverallWinner(
                            Wins(own.body.categories, JsNum(1))
                                + WinsOfOthers(r, NumReq, JsNum(1)),
                            Wins(own.body.categories, JsNum(2))
                                + WinsOfOthers(r, NumReq, JsNum(2)))]
               ELSE own
       IN req' = [req EXCEPT ![r] =
                    IF catalog.ok /\ ~Throws(req[r], catalog.heroes)
                    THEN [@ EXCEPT !.pc = "done", !.sent = @ + 1, !.data = catalog,
                                   !.resp = shared]
                    ELSE [@ EXCEPT !.pc = "done", !.sent = @ + 1, !.data = catalog,
                                   !.errors = @ + 1,
                                   !.resp = InternalServerError]]
    /\ UNCHANGED <<catalog, ui>>

\* Mutant: the catch block answers 500 without console.error.
ReadFileCallback_Silent(r) ==
    /\ req[r].pc = "loading"
    /\ req' = [req EXCEPT ![r] =
                 IF catalog.ok /\ ~Throws(req[r], catalog.heroes)
                 THEN [@ EXCEPT !.pc = "done", !.sent = @ + 1, !.data = catalog,
                                !.resp = Loaded(req[r], catalog.heroes)]
                 ELSE [@ EXCEPT !.pc = "done", !.sent = @ + 1, !.data = catalog,
                                !.resp = InternalServerError]]
    /\ UNCHANGED <<catalog, ui>>

\* Mutant: the handler drops the first entity of the array and writes the
\* file back.
ReadFileCallback_WritesBack(r) ==
    /\ req[r].pc = "loading"
    /\ req' = [req EXCEPT ![r] =
                 IF catalog.ok /\ ~Throws(req[r], catalog.heroes)
                 THEN [@ EXCEPT !.pc = "done", !.sent = @ + 1, !.data = catalog,
                                !.resp = Loaded(req[r], catalog.heroes)]
                 ELSE [@ EXCEPT !.pc = "done", !.sent = @ + 1, !.data = catalog,
                                !.errors = @ + 1,
                                !.resp = InternalServerError]]
    /\ catalog' = IF catalog.ok /\ catalog.heroes # <<>>
                  THEN Readable(Tail(catalog.heroes)) ELSE catalog
    /\ UNCHANGED ui

\* Mutant: the handler has no catch block, so a rejected load or a throw
\* ends it with nothing sent.
ReadFileCallback_NoCatch(r) ==
    /\ req[r].pc = "loading"
    /\ req' = [req EXCEPT ![r] =
                 IF catalog.ok /\ ~Throws(req[r], catalog.heroes)
                 THEN [@ EXCEPT !.pc = "done", !.sent = @ + 1, !.data = catalog,
                                !.resp = Loaded(req[r], catalog.heroes)]
                 ELSE [@ EXCEPT !.pc = "rejected", !.data = catalog]]
    /\ UNCHANGED <<catalog, ui>>

\* Mutant: a failed load is tried once more before the catch block answers.
ReadFileCallback_RetriesOnce(r) ==
    /\ req[r].pc = "loading"
    /\ req' = [req EXCEPT ![r] =
                 IF catalog.ok /\ ~Throws(req[r], catalog.heroes)
                 THEN [@ EXCEPT !.pc = "done", !.sent = @ + 1, !.data = catalog,
                                !.resp = Loaded(req[r], catalog.heroes)]
                 ELSE IF req[r].loads < 2
                 THEN [@ EXCEPT !.loads = @ + 1]
                 ELSE [@ EXCEPT !.pc = "done", !.sent = @ + 1, !.data = catalog,
                                !.errors = @ + 1,
                                !.resp = InternalServerError]]
    /\ UNCHANGED <<catalog, ui>>

\* The fs.readFile callback of slot r's load and the handler's continuation:
\* the promise resolves with the parsed file and the handler answers, or the
\* promise rejects or the handler throws, and the catch block logs and
\* answers 500.
ReadFileCallback(r) ==
    /\ req[r].pc = "loading"
    /\ req' = [req EXCEPT ![r] =
                 IF catalog.ok /\ ~Throws(req[r], catalog.heroes)
                 THEN [@ EXCEPT !.pc = "done", !.sent = @ + 1, !.data = catalog,
                                !.resp = Loaded(req[r], catalog.heroes)]
                 ELSE [@ EXCEPT !.pc = "done", !.sent = @ + 1, !.data = catalog,
                                !.errors = @ + 1,
                                !.resp = InternalServerError]]
    /\ UNCHANGED <<catalog, ui>>

\* The response has gone out; the slot takes the next request.
Release(r) ==
    /\ req[r].pc = "done"
    /\ req' = [req EXCEPT ![r] = Idle]
    /\ UNCHANGED <<catalog, ui>>

\* The environment replaces the catalog file.
CatalogEdit(c) ==
    /\ c # catalog
    /\ catalog' = c
    /\ UNCHANGED <<req, ui>>

\* --------------------------------------------------------------- frontend
\* The App component: the table view with its checkboxes and compare button,
\* and the comparison view with its back button.

\* The rows of the heroes table, by position.
Rows == 1..MaxRows

\* The last thing the user did.
Event(kind, hero) == [kind |-> kind, hero |-> hero]

\* The state after mount: the table view, 0/2 selected.  clicks counts the
\* checkbox clicks since then.
Mounted ==
    [currentView |-> "table", selectedHeroes |-> <<>>, event |-> Event("none", 0),
     clicks |-> 0]

IsSelected(selected, hero) == \E i \in DOMAIN selected : selected[i] = hero
Without(selected, hero) == SelectSeq(selected, LAMBDA h : h # hero)

\* Mutant: a third selection replaces the latest-selected hero.
NextSelection_ReplacesLatest(prev, hero) ==
    IF IsSelected(prev, hero) THEN Without(prev, hero)
    ELSE IF Len(prev) < 2 THEN Append(prev, hero)
    ELSE <<prev[1], hero>>

\* The selection after a click on hero's checkbox: deselect, add, or drop the
\* earliest-selected hero and add.
NextSelection(prev, hero) ==
    IF IsSelected(prev, hero) THEN Without(prev, hero)
    ELSE IF Len(prev) < 2 THEN Append(prev, hero)
    ELSE <<prev[2], hero>>

\* Mutant: the button is disabled only while nothing is selected.
CompareDisabled_OnlyWhenEmpty(selected) == Len(selected) = 0

\* The compare button's disabled attribute.
CompareDisabled(selected) == Len(selected) # 2

\* A click on the checkbox of a table row.
handleHeroSelection(hero) ==
    /\ ui.currentView = "table"
    /\ ui.clicks < MaxClicks
    /\ ui' = [ui EXCEPT !.selectedHeroes = NextSelection(@, hero),
                        !.event = Event("select", hero),
                        !.clicks = @ + 1]
    /\ UNCHANGED <<catalog, req>>

\* A click on the compare button, forced if the button is disabled.
handleCompare ==
    /\ ui.currentView = "table"
    /\ ui' = [ui EXCEPT !.currentView = IF CompareDisabled(ui.selectedHeroes)
                                        THEN @ ELSE "comparison",
                        !.event = Event("compare", 0)]
    /\ UNCHANGED <<catalog, req>>

\* A click on the back button of the comparison view.
handleBackToTable ==
    /\ ui.currentView = "comparison"
    /\ ui' = [Mounted EXCEPT !.event = Event("back", 0)]
    /\ UNCHANGED <<catalog, req>>

\* ---------------------------------------------------------- specifications
\* Spec: one request at a time, over a wide set of raw query and path
\* strings, with the catalog file changing under it.
\* SpecConcurrent: NumReq requests in flight over a few identifiers.
\* SpecCompare: every pair of statlines over 0..MaxStat, compared.

\* The id strings of the pool heroes and of MaxId + 1, which no catalog holds.
IdStrings == {NumberToString(i) : i \in 1..(MaxId + 1)}

\* Raw strings a client may send where an id is expected.
OddStrings ==
    { <<>>, <<" ">>, <<"a", "b", "c">>, <<"1", ".", "5">>, INFINITY,
      <<"0", "1">>, <<"1", ".", "0">>, <<"0", "x", "1">>, <<" ", "1">>,
      <<"1", "e", "0">> }
RawQueries == {Missing} \cup {Str(c) : c \in IdStrings \cup OddStrings}
\* The query values that are absent or the decimal form of an id.
IdQueries == {Missing} \cup {Str(c) : c \in IdStrings}
\* A path segment is never empty.
RawParams == (IdStrings \cup OddStrings) \ {<<>>}

Init ==
    /\ catalog \in CatalogStates
    /\ req = [r \in Reqs |-> Idle]
    /\ ui = Mounted

Next ==
    \/ \E q1, q2 \in RawQueries : CompareRequest(1, q1, q2)
    \/ ListRequest(1)
    \/ \E id \in RawParams : EntityRequest(1, id)
    \/ \E id \in RawParams : PowerstatsRequest(1, id)
    \/ ReadFileCallback(1)
    \/ Release(1)
    \/ \E c \in CatalogStates : CatalogEdit(c)

Spec == Init /\ [][Next]_vars

\* Identifiers of the concurrent specification: hero 1, and the absent id.
FewIds == {NumberToString(1), NumberToString(MaxId + 1)}
FewQueries == {Str(c) : c \in FewIds}

NextConcurrent ==
    \/ \E r \in Reqs, q1, q2 \in FewQueries : CompareRequest(r, q1, q2)
    \/ \E r \in Reqs : ListRequest(r)
    \/ \E r \in Reqs, id \in FewIds : EntityRequest(r, id)
    \/ \E r \in Reqs, id \in FewIds : PowerstatsRequest(r, id)
    \/ \E r \in Reqs : ReadFileCallback(r)
    \/ \E r \in Reqs : Release(r)
    \/ \E c \in CatalogStates : CatalogEdit(c)

SpecConcurrent == Init /\ [][NextConcurrent]_vars

\* Two heroes, ids 1 and 2, with any two statlines.
Statlines == [Categories -> 0..MaxStat]

InitCompare ==
    /\ catalog \in {Readable(<<Hero(1, "A-Bomb", a), Hero(2, "Hero", b)>>) :
                        a, b \in Statlines}
    /\ req = [r \in Reqs |-> Idle]
    /\ ui = Mounted

\* The query values ?id=1 and ?id=2.
QueryOne == Str(NumberToString(1))
QueryTwo == Str(NumberToString(2))
CompareQueries == {QueryOne, QueryTwo}

\* Slot 1 asks for compare(1, 2) or compare(1, 1), slot 2 for compare(2, 1).
NextCompare ==
    \/ \E q2 \in CompareQueries : CompareRequest(1, QueryOne, q2)
    \/ CompareRequest(2, QueryTwo, QueryOne)
    \/ \E r \in Reqs : ReadFileCallback(r)
    \/ \E r \in Reqs : Release(r)

SpecCompare == InitCompare /\ [][NextCompare]_vars

\* SpecMalformed: comparisons over catalog files whose entities may lack the
\* statline or one of its categories (the file is parsed, never validated).

\* Hero i with no powerstats property.
WithoutStatline(i) == [id |-> i, name |-> PoolName(i), image |-> "image.jpg"]

\* Hero i whose powerstats lacks the key cat.
WithoutCategory(i, cat) ==
    [id |-> i, name |-> PoolName(i), image |-> "image.jpg",
     powerstats |-> [c \in Categories \ {cat} |-> PoolStats(i)[c]]]

\* Hero i as a file may hold it.
HeroVariants(i) ==
    {PoolHero(i), WithoutStatline(i)} \cup {WithoutCategory(i, cat) : cat \in Categories}

InitMalformed ==
    /\ catalog \in {Readable(<<a, b>>) : a \in HeroVariants(1), b \in HeroVariants(2)}
    /\ req = [r \in Reqs |-> Idle]
    /\ ui = Mounted

NextMalformed ==
    \/ \E q1, q2 \in IdQueries : CompareRequest(1, q1, q2)
    \/ ReadFileCallback(1)
    \/ Release(1)

SpecMalformed == InitMalformed /\ [][NextMalformed]_vars

\* SpecStatic: NumReq requests in flight over a catalog file nobody edits.
NextStatic ==
    \/ \E r \in Reqs, q1, q2 \in IdQueries :
          CompareRequest(r, q1, q2)
    \/ \E r \in Reqs : ListRequest(r)
    \/ \E r \in Reqs, id \in IdStrings : EntityRequest(r, id)
    \/ \E r \in Reqs, id \in IdStrings : PowerstatsRequest(r, id)
    \/ \E r \in Reqs : ReadFileCallback(r)
    \/ \E r \in Reqs : Release(r)

SpecStatic == Init /\ [][NextStatic]_vars

\* SpecFair: one request at a time over the raw strings of Spec, the file
\* left alone, where the read that was started completes (fs.readFile calls
\* its callback, with data or with an error).
NextFair ==
    \/ \E q1, q2 \in RawQueries : CompareRequest(1, q1, q2)
    \/ ListRequest(1)
    \/ \E id \in RawParams : EntityRequest(1, id)
    \/ \E id \in RawParams : PowerstatsRequest(1, id)
    \/ ReadFileCallback(1)
    \/ Release(1)

SpecFair == Init /\ [][NextFair]_vars /\ WF_vars(ReadFileCallback(1))

\* SpecRouting: one request at a time, given by its path and query.
Paths ==
    { <<>>, <<COMPARE>>, <<NumberToString(1)>>, <<NumberToString(MaxId + 1)>>,
      <<<<"a", "b", "c">>>>, <<NumberToString(1), POWERSTATS>>,
      <<COMPARE, POWERSTATS>> }

RoutingQueries == {Missing} \cup CompareQueries

NextRouting ==
    \/ \E path \in Paths, q1, q2 \in RoutingQueries :
          HttpGet(1, path, q1, q2)
    \/ ReadFileCallback(1)
    \/ Release(1)

SpecRouting == Init /\ [][NextRouting]_vars

\* SpecFrontend: the user clicks through the frontend; no request is modelled.
InitFrontend ==
    /\ catalog = Unreadable
    /\ req = [r \in Reqs |-> Idle]
    /\ ui = Mounted

NextFrontend ==
    \/ \E hero \in Rows : handleHeroSelection(hero)
    \/ handleCompare
    \/ handleBackToTable

SpecFrontend == InitFrontend /\ [][NextFrontend]_vars

\* ------------------------------------------------------------------ claims
RE_required == <<"r", "e", "q", "u", "i", "r", "e", "d">>
RE_not_found == <<"n", "o", "t", " ", "f", "o", "u", "n", "d">>

IsCompare(s) == s.route = "compare"
Answered(s) == s.pc = "done"

\* The load of slot s resolved with an array holding a hero of this id.
InCatalog(s, id) ==
    s.data.ok /\ \E i \in DOMAIN s.data.heroes : FromInt(s.data.heroes[i].id) = id

\* Query values with no numeric reading at all: the parameter is absent, or
\* its text is not a number in any notation.
NonNumericQueries == {Missing, Str(<<"a", "b", "c">>)}

NotIntegerIds ==
    {Missing, Str(<<>>), Str(<<" ">>), Str(<<"1", ".", "5">>), Str(INFINITY),
     Str(<<"a", "b", "c">>)}

\* C2: compare yields the validation failure whenever either identifier is
\* absent or not parseable as an integer id (the empty string, white space,
\* "1.5", "Infinity"); such a request never reaches the lookup.
C2_NonIntegerIsValidationError ==
    \A r \in Reqs :
        (IsCompare(req[r])
            /\ (req[r].q1 \in NotIntegerIds \/ req[r].q2 \in NotIntegerIds))
        => /\ Answered(req[r])
           /\ req[r].resp.status = 400
           /\ req[r].loads = 0

\* C3: when id1 or id2 is missing the response is 400 and its error message
\* matches /required/.
C3_MissingSaysRequired ==
    \A r \in Reqs :
        (IsCompare(req[r]) /\ Answered(req[r])
            /\ (req[r].q1 = Missing \/ req[r].q2 = Missing))
        => /\ req[r].resp.status = 400
           /\ req[r].resp.type = "json"
           /\ Matches(req[r].resp.body.error, RE_required)

\* Slot s is a compare request that passed validation, whose load resolved
\* with a catalog that lacks at least one of the two ids.
OneIdAbsent(s) ==
    /\ IsCompare(s) /\ Answered(s) /\ s.loads = 1 /\ s.data.ok
    /\ ~InvalidIds(s.id1, s.id2)
    /\ (~InCatalog(s, s.id1) \/ ~InCatalog(s, s.id2))

\* C4: a compare request with two valid numeric ids of which at least one has
\* no entity in the catalog read is answered 404 with an error matching
\* /not found/: never a success, never any categories.
C4_AbsentIsNotFound ==
    \A r \in Reqs :
        OneIdAbsent(req[r])
        => /\ req[r].resp.status = 404
           /\ req[r].resp.type = "json"
           /\ DOMAIN req[r].resp.body = {"error"}
           /\ Matches(req[r].resp.body.error, RE_not_found)

\* compare(found, missing): the first hero is in the catalog read, the
\* second is not.
C4_Witness ==
    /\ OneIdAbsent(req[1])
    /\ InCatalog(req[1], req[1].id1)
    /\ ~InCatalog(req[1], req[1].id2)
    /\ req[1].resp.status = 404

\* C5: the not-found answer does not tell which identifier was missing: any
\* two not-found compare responses have the same status and the same body.
C5_NotFoundIndistinguishable ==
    \A r1, r2 \in Reqs :
        (OneIdAbsent(req[r1]) /\ OneIdAbsent(req[r2]))
        => req[r1].resp = req[r2].resp

\* compare(found, missing) beside compare(missing, found).
C5_Witness ==
    /\ OneIdAbsent(req[1]) /\ OneIdAbsent(req[2])
    /\ InCatalog(req[1], req[1].id1) /\ ~InCatalog(req[1], req[1].id2)
    /\ ~InCatalog(req[2], req[2].id1) /\ InCatalog(req[2], req[2].id2)

\* Slot s is a compare request answered 200.
Succeeded(s) == IsCompare(s) /\ Answered(s) /\ s.resp.status = 200

\* The entity of this id in the catalog that slot s read (ids are unique).
Entity(s, id) ==
    LET i == CHOOSE i \in DOMAIN s.data.heroes : FromInt(s.data.heroes[i].id) = id
    IN s.data.heroes[i]

First == JsNum(1)
Second == JsNum(2)
Tie == JsStr("tie")

\* C6: in every category of every successful comparison the winner is First
\* iff the first entity's value is greater, Second iff the second's is, and
\* Tie iff they are equal, whatever the category.
C6_CategoryWinnerRule ==
    \A r \in Reqs :
        Succeeded(req[r])
        => \A i \in DOMAIN req[r].resp.body.categories :
              LET c == req[r].resp.body.categories[i]
                  valueA == Entity(req[r], req[r].id1).powerstats[c.name]
                  valueB == Entity(req[r], req[r].id2).powerstats[c.name]
              IN /\ (c.winner = First) <=> (valueA > valueB)
                 /\ (c.winner = Second) <=> (valueB > valueA)
                 /\ (c.winner = Tie) <=> (valueA = valueB)

\* One comparison with a category won by each side and a tied one.
C6_Witness ==
    /\ Succeeded(req[1])
    /\ req[1].resp.body.categories[1].winner = First
    /\ req[1].resp.body.categories[2].winner = Second
    /\ req[1].resp.body.categories[3].winner = Tie

\* The number of categories of slot s's response won by `winner`.
Won(s, winner) ==
    Cardinality({i \in DOMAIN s.resp.body.categories :
                    s.resp.body.categories[i].winner = winner})

\* C7: the overall winner is First iff the first entity won more categories,
\* Second iff the second did, and Tie iff both won equally many (ties count
\* for neither).
C7_OverallWinnerRule ==
    \A r \in Reqs :
        Succeeded(req[r])
        => LET winsA == Won(req[r], First)
               winsB == Won(req[r], Second)
               overall == req[r].resp.body.overall_winner
           IN /\ (overall = First) <=> (winsA > winsB)
              /\ (overall = Second) <=> (winsB > winsA)
              /\ (overall = Tie) <=> (winsA = winsB)

\* A 3-3 split, answered Tie.
C7_Witness ==
    /\ Succeeded(req[1])
    /\ Won(req[1], First) = 3 /\ Won(req[1], Second) = 3
    /\ req[1].resp.body.overall_winner = Tie

CanonicalOrder ==
    <<"intelligence", "strength", "speed", "durability", "power", "combat">>

\* C8: a successful comparison holds exactly six category results, in the
\* canonical order, each with the two entities' stored values unmodified.
C8_SixCategoriesInOrder ==
    \A r \in Reqs :
        Succeeded(req[r])
        => /\ DOMAIN req[r].resp.body.categories = 1..6
           /\ \A i \in 1..6 :
                LET c == req[r].resp.body.categories[i]
                IN /\ c.name = CanonicalOrder[i]
                   /\ c.id1_value
                        = Entity(req[r], req[r].id1).powerstats[CanonicalOrder[i]]
                   /\ c.id2_value
                        = Entity(req[r], req[r].id2).powerstats[CanonicalOrder[i]]

\* A comparison of two entities whose values differ from each other in the
\* first category and from category to category.
C8_Witness ==
    /\ Succeeded(req[1])
    /\ req[1].resp.body.categories[1].id1_value
         # req[1].resp.body.categories[1].id2_value
    /\ req[1].resp.body.categories[1].id1_value
         # req[1].resp.body.categories[6].id1_value

Flip(winner) ==
    IF winner = First THEN Second ELSE IF winner = Second THEN First ELSE winner

\* Slots s and t compared the same two ids, in opposite orders, over the
\* same catalog.
Swapped(s, t) ==
    /\ Succeeded(s) /\ Succeeded(t)
    /\ s.id1 = t.id2 /\ s.id2 = t.id1 /\ s.data = t.data

\* C9: compare(A, B) and compare(B, A) are mirror images: per category the
\* winner is flipped and the two values are swapped, and the overall winner
\* is flipped.
C9_Mirror ==
    \A r1, r2 \in Reqs :
        Swapped(req[r1], req[r2])
        => LET x == req[r1].resp.body
               y == req[r2].resp.body
           IN /\ DOMAIN x.categories = DOMAIN y.categories
              /\ \A i \in DOMAIN x.categories :
                    /\ y.categories[i].name = x.categories[i].name
                    /\ y.categories[i].winner = Flip(x.categories[i].winner)
                    /\ y.categories[i].id1_value = x.categories[i].id2_value
                    /\ y.categories[i].id2_value = x.categories[i].id1_value
              /\ y.overall_winner = Flip(x.overall_winner)

\* compare(1, 2) won by the first beside compare(2, 1) won by the second,
\* with a tied category among the six.
C9_Witness ==
    /\ Swapped(req[1], req[2])
    /\ req[1].id1 # req[1].id2
    /\ req[1].resp.body.overall_winner = First
    /\ req[2].resp.body.overall_winner = Second
    /\ \E i \in 1..6 : req[1].resp.body.categories[i].winner = Tie

\* Slot s is a compare request of one id against itself, answered from a
\* catalog that holds the id.
SelfCompare(s) ==
    /\ IsCompare(s) /\ Answered(s) /\ s.loads = 1
    /\ StrictEquals(s.id1, s.id2)
    /\ InCatalog(s, s.id1)

\* C10: for every entity A of the catalog compare(A, A) succeeds, with Tie in
\* each of the six categories and Tie overall.
C10_SelfCompareAllTie ==
    \A r \in Reqs :
        SelfCompare(req[r])
        => /\ req[r].resp.status = 200
           /\ Len(req[r].resp.body.categories) = 6
           /\ \A i \in 1..6 : req[r].resp.body.categories[i].winner = Tie
           /\ req[r].resp.body.overall_winner = Tie

\* compare(1, 1) answered, hero 1 being in the catalog, with a statline that
\* is not all zero.
C10_Witness ==
    /\ SelfCompare(req[1])
    /\ req[1].resp.status = 200
    /\ \E i \in 1..6 : req[1].resp.body.categories[i].id1_value > 0

IdNumber(id) == JsNum(id.m)

\* C12: when one hero wins more categories than the other, overall_winner is
\* the id of the winning hero (compare id1=3, id2=2: hero 3 wins 5-1, so 3).
C12_OverallWinnerIsHeroId ==
    \A r \in Reqs :
        Succeeded(req[r])
        => /\ Won(req[r], First) > Won(req[r], Second)
                => req[r].resp.body.overall_winner = IdNumber(req[r].id1)
           /\ Won(req[r], Second) > Won(req[r], First)
                => req[r].resp.body.overall_winner = IdNumber(req[r].id2)

\* C13: a successful comparison echoes the two request identifiers as
\* numbers in id1 and id2, in request order.
C13_EchoesRequestIds ==
    \A r \in Reqs :
        Succeeded(req[r])
        => /\ req[r].resp.body.id1.kind = "Num"
           /\ req[r].resp.body.id2.kind = "Num"
           /\ req[r].resp.body.id1 = StringToNumber(req[r].q1.chars)
           /\ req[r].resp.body.id2 = StringToNumber(req[r].q2.chars)

\* compare(2, 1) answered from a catalog that lists hero 1 before hero 2.
C13_Witness ==
    /\ Succeeded(req[1])
    /\ req[1].q1 = QueryTwo /\ req[1].q2 = QueryOne
    /\ req[1].data.heroes[1].id = 1
    /\ req[1].resp.body.id1 = FromInt(2) /\ req[1].resp.body.id2 = FromInt(1)

\* Slot s is an answered request of the :id or the :id/powerstats route whose
\* load resolved.
IsProjection(s) ==
    /\ s.route \in {"entity", "powerstats"}
    /\ Answered(s) /\ s.data.ok

\* The entities of the catalog slot s read whose id, written in decimal, is
\* the path segment of the request.
Matching(s) ==
    {i \in DOMAIN s.data.heroes : NumberToString(s.data.heroes[i].id) = s.q1.chars}

\* C14: getEntity and getStatline answer 404 with the text 'Superhero not
\* found' for every id that matches no entity, 'abc' included, never a
\* validation failure; getEntity of a matching id returns the whole entity.
C14_ProjectionNotFound ==
    \A r \in Reqs :
        IsProjection(req[r])
        => /\ req[r].resp.status # 400
           /\ Matching(req[r]) = {}
                => req[r].resp = [status |-> 404, type |-> "text",
                                  body |-> [text |-> MSG_NOT_FOUND]]
           /\ (Matching(req[r]) # {} /\ req[r].route = "entity")
                => /\ req[r].resp.status = 200
                   /\ req[r].resp.type = "json"
                   /\ DOMAIN req[r].resp.body = {"id", "name", "image", "powerstats"}
                   /\ \E i \in Matching(req[r]) :
                         req[r].resp.body = req[r].data.heroes[i]

\* GET /api/superheroes/abc answered 404 from a catalog that is not empty.
C14_Witness ==
    /\ IsProjection(req[1])
    /\ req[1].route = "entity"
    /\ req[1].q1.chars = <<"a", "b", "c">>
    /\ req[1].data.heroes # <<>>
    /\ req[1].resp.status = 404

\* C15: for every id found, getStatline returns the statline alone: the six
\* category keys with the entity's values, and no id, name or image.
C15_StatlineAlone ==
    \A r \in Reqs :
        (IsProjection(req[r]) /\ req[r].route = "powerstats"
            /\ Matching(req[r]) # {})
        => /\ req[r].resp.status = 200
           /\ req[r].resp.type = "json"
           /\ DOMAIN req[r].resp.body
                = {"intelligence", "strength", "speed", "durability", "power",
                   "combat"}
           /\ \E i \in Matching(req[r]) :
                 \A c \in DOMAIN req[r].resp.body :
                    req[r].resp.body[c] = req[r].data.heroes[i].powerstats[c]

\* GET /api/superheroes/2/powerstats answered with hero 2's statline.
C15_Witness ==
    /\ IsProjection(req[1])
    /\ req[1].route = "powerstats"
    /\ req[1].q1.chars = <<"2">>
    /\ req[1].resp.status = 200
    /\ req[1].resp.body.intelligence = 100

\* C16: listAll returns every entity of the catalog read, in the catalog's
\* order; an empty catalog gives a successful empty list.
C16_ListAll ==
    \A r \in Reqs :
        (req[r].route = "list" /\ Answered(req[r]) /\ req[r].data.ok)
        => /\ req[r].resp.status = 200
           /\ req[r].resp.type = "json"
           /\ req[r].resp.body.array = req[r].data.heroes

\* The list of an empty catalog, answered 200.
C16_Witness ==
    /\ req[1].route = "list" /\ Answered(req[1]) /\ req[1].data.ok
    /\ req[1].data.heroes = <<>>
    /\ req[1].resp.status = 200

\* Slot s is an answered request whose load was rejected.
LoadFailed(s) == Answered(s) /\ s.loads = 1 /\ ~s.data.ok

\* C17: when the catalog cannot be read or parsed, each of the four
\* operations answers 500 'Internal Server Error': never 404, never success.
C17_UnreadableIsUnavailable ==
    \A r \in Reqs :
        LoadFailed(req[r])
        => req[r].resp = [status |-> 500, type |-> "text",
                          body |-> [text |-> MSG_INTERNAL]]

\* compare with two valid ids, answered 500.
C17_Witness ==
    /\ LoadFailed(req[1])
    /\ IsCompare(req[1])
    /\ req[1].q1 = QueryOne /\ req[1].q2 = QueryTwo
    /\ req[1].resp.status = 500

\* A category result with its name, its winner and both values.
CompleteCategoryResult(c) ==
    /\ DOMAIN c = {"name", "winner", "id1_value", "id2_value"}
    /\ c.winner \in {First, Second, Tie}

\* C18: every compare response is either a success with six complete
\* category results and an overall winner, or a 400, 404 or 500 with no
\* category results, also when an entity of the catalog read lacks the
\* statline or one of its categories.
C18_NoPartialResult ==
    \A r \in Reqs :
        (IsCompare(req[r]) /\ Answered(req[r]))
        => \/ /\ req[r].resp.status = 200
              /\ DOMAIN req[r].resp.body
                    = {"id1", "id2", "categories", "overall_winner"}
              /\ Len(req[r].resp.body.categories) = 6
              /\ \A i \in 1..6 :
                    CompleteCategoryResult(req[r].resp.body.categories[i])
              /\ req[r].resp.body.overall_winner \in {First, Second, Tie}
           \/ /\ req[r].resp.status \in {400, 404, 500}
              /\ "categories" \notin DOMAIN req[r].resp.body

\* What the handler of slot s answers from the file contents c, with no
\* other request in flight.
Alone(s, c) ==
    IF IsCompare(s) /\ InvalidIds(Number(s.q1), Number(s.q2)) THEN BadRequest
    ELSE IF ~c.ok THEN InternalServerError
    ELSE Loaded(s, c.heroes)

\* C19: every load reads the file: the request that is answered after a load
\* holds the file as it is at that step, and its response is the one computed
\* from that content, whatever earlier requests read.
C19_NoCaching ==
    [][\A r \in Reqs :
          (req[r].pc = "loading" /\ req'[r].pc = "done")
          => /\ req'[r].loads = 1
             /\ req'[r].data = catalog
             /\ req'[r].resp = Alone(req[r], catalog)]_vars

\* The same list request answered twice with the file changed in between:
\* the two responses differ, each showing the file as its load found it.
C19_Witness ==
    /\ req[1].route = "list" /\ req[2].route = "list"
    /\ Answered(req[1]) /\ Answered(req[2])
    /\ req[1].data.ok /\ req[2].data.ok
    /\ req[1].resp.body.array # req[2].resp.body.array
    /\ req[2].resp.body.array = catalog.heroes

\* C20: with the catalog unchanged, a step of one request changes no other
\* request's slot, and the response of every request is the one its handler
\* gives with no other request in flight.
C20_InterleavingIndependent ==
    [][\A r \in Reqs :
          req'[r] # req[r]
          => /\ \A o \in Reqs \ {r} : req'[o] = req[o]
             /\ Answered(req'[r]) => req'[r].resp = Alone(req'[r], catalog)]_vars

\* Two comparisons that share their heroes, compare(2, 3) and compare(3, 2),
\* both answered before either is released: hero 3 wins each.
C20_Witness ==
    /\ Succeeded(req[1]) /\ Succeeded(req[2])
    /\ req[1].id1 = FromInt(2) /\ req[1].id2 = FromInt(3)
    /\ req[2].id1 = FromInt(3) /\ req[2].id2 = FromInt(2)
    /\ req[1].resp.body.overall_winner = Second
    /\ req[2].resp.body.overall_winner = First

NoDuplicates(selected) ==
    \A i, j \in DOMAIN selected : i # j => selected[i] # selected[j]

\* C21: a checkbox click leaves at most two distinct heroes selected: a click
\* on a selected hero removes that hero and nothing else, a click on another
\* hero adds it, and when two were selected the earliest-selected one is
\* dropped and the later one kept.
C21_SelectionFifo ==
    [][ui'.event.kind = "select"
        => LET hero == ui'.event.hero
               prev == ui.selectedHeroes
               next == ui'.selectedHeroes
           IN /\ Len(next) <= 2 /\ NoDuplicates(next)
              /\ IsSelected(prev, hero)
                    => /\ ~IsSelected(next, hero)
                       /\ Len(next) = Len(prev) - 1
                       /\ \A i \in DOMAIN next : IsSelected(prev, next[i])
              /\ (~IsSelected(prev, hero) /\ Len(prev) < 2)
                    => next = prev \o <<hero>>
              /\ (~IsSelected(prev, hero) /\ Len(prev) = 2)
                    => next = <<prev[2], hero>>]_vars

\* Rows 1, 2, 3, 1, 2 clicked in turn: three clicks each dropped the
\* earliest-selected hero, and rows 1 and 2 are selected.
C21_Witness ==
    /\ ui.clicks = 5
    /\ ui.event = Event("select", 2)
    /\ ui.selectedHeroes = <<1, 2>>

\* C22: the comparison view is entered only by a click on the compare button
\* with exactly two heroes selected, which it keeps; a click on the button with
\* fewer selected changes neither view nor selection; and the back button
\* gives the table view with nothing selected and the button disabled.
C22_ComparisonNeedsTwo ==
    [][/\ (ui.currentView = "table" /\ ui'.currentView = "comparison")
            => /\ ui'.event.kind = "compare"
               /\ Len(ui.selectedHeroes) = 2
               /\ ui'.selectedHeroes = ui.selectedHeroes
       /\ (ui'.event.kind = "compare" /\ Len(ui.selectedHeroes) < 2)
            => /\ ui'.currentView = "table"
               /\ ui'.selectedHeroes = ui.selectedHeroes
       /\ ui.currentView = "comparison"
            => /\ ui'.currentView = "table"
               /\ ui'.selectedHeroes = <<>>
               /\ CompareDisabled(ui'.selectedHeroes)]_vars

\* Back in the table view from a comparison, 0/2 selected.
C22_Witness ==
    /\ ui.event.kind = "back"
    /\ ui.currentView = "table"
    /\ ui.selectedHeroes = <<>>

\* C23: no request writes a log entry, on any path, a failed catalog read
\* included.
C23_NeverLogs == \A r \in Reqs : req[r].errors = 0

\* C23, amended: a request writes one console.error entry when it ends in its
\* catch block and answers 500, and none on any other path (200, 400, 404, or
\* not yet answered).
C23_LogsOnlyOnFailure ==
    \A r \in Reqs :
        /\ req[r].errors = (IF Answered(req[r]) /\ req[r].resp.status = 500
                            THEN 1 ELSE 0)
        /\ (Answered(req[r]) /\ req[r].loads = 1 /\ ~req[r].data.ok)
              => req[r].errors = 1

\* A list request over an unreadable file: answered 500, one entry logged.
C23_Witness ==
    /\ req[1].route = "list" /\ LoadFailed(req[1])
    /\ req[1].resp.status = 500
    /\ req[1].errors = 1

\* Slots s and t hold answered compare requests with the same query strings
\* whose loads gave the same file contents.
SameComparison(s, t) ==
    /\ IsCompare(s) /\ IsCompare(t)
    /\ Answered(s) /\ Answered(t)
    /\ s.q1 = t.q1 /\ s.q2 = t.q2
    /\ s.loads = t.loads /\ s.data = t.data

\* C24: two compare requests with the same id1 and id2 over the same catalog
\* contents have the same response (status, categories, overall winner),
\* whatever was requested, answered and released before them.
C24_CompareDeterministic ==
    \A r1, r2 \in Reqs :
        SameComparison(req[r1], req[r2]) => req[r1].resp = req[r2].resp

\* compare(2, 2) answered twice over a catalog that holds heroes 2 and 3: all
\* six categories tied, both times.
C24_Witness ==
    /\ SameComparison(req[1], req[2])
    /\ Succeeded(req[1]) /\ Succeeded(req[2])
    /\ req[1].id1 = FromInt(2) /\ req[1].id2 = FromInt(2)
    /\ InCatalog(req[1], FromInt(3))
    /\ req[1].resp.body.overall_winner = Tie

\* C25: no step of a request, successful or failing, changes the catalog
\* file: its entities, their order and their statlines stay as they were.
C25_CatalogReadOnly == [][catalog' = catalog]_vars

\* A successful comparison beside a 404 for an absent id, with the file still
\* holding what both requests read.
C25_Witness ==
    /\ Succeeded(req[1])
    /\ req[2].route = "entity" /\ Answered(req[2]) /\ req[2].resp.status = 404
    /\ catalog.ok /\ Len(catalog.heroes) = MaxHeroes
    /\ req[1].data = catalog /\ req[2].data = catalog

\* Slot s holds a request in flight or answered.
Occupied(s) == s.pc # "idle"

\* C26: a request has sent nothing while it waits for the read and exactly
\* one response, with status 200, 400, 404 or 500, once it is answered; and
\* every request that waits for the read is answered when the read completes.
C26_AnsweredOnce ==
    /\ [](\A r \in Reqs :
            Occupied(req[r])
            => /\ req[r].pc \in {"loading", "done"}
               /\ req[r].pc = "loading"
                    => req[r].sent = 0 /\ req[r].resp = NoResponse
               /\ req[r].pc = "done"
                    => /\ req[r].sent = 1
                       /\ req[r].resp.status \in {200, 400, 404, 500})
    /\ \A r \in Reqs : (req[r].pc = "loading") ~> (req[r].pc = "done")

\* A powerstats request answered 500 after its read failed: one response.
C26_Witness ==
    /\ req[1].route = "powerstats" /\ LoadFailed(req[1])
    /\ req[1].resp.status = 500 /\ req[1].sent = 1

\* The entity (its position in the array, 0 for none) that compare resolves
\* the raw string to: Number(raw), then h.id === id.
ResolvedByCompare(superheroes, raw) ==
    IF isNaN(Number(Str(raw))) THEN 0 ELSE Find(superheroes, Number(Str(raw)))

\* The entity that the :id and :id/powerstats routes resolve the raw string to.
ResolvedByProjection(superheroes, raw) == FindByString(superheroes, raw)

\* C27: every raw identifier string resolves to the same entity, or to none,
\* in compare as in getEntity and getStatline: a projection request is
\* answered 200 exactly when compare would find its string, and a compare of
\* a string with itself is answered 200 exactly when the projections would
\* find it.
C27_ResolutionConsistent ==
    \A r \in Reqs :
        (Answered(req[r]) /\ req[r].loads = 1 /\ req[r].data.ok)
        => /\ req[r].route \in {"entity", "powerstats"}
                => /\ ResolvedByCompare(req[r].data.heroes, req[r].q1.chars)
                        = ResolvedByProjection(req[r].data.heroes, req[r].q1.chars)
                   /\ req[r].resp.status = 200
                        <=> ResolvedByCompare(req[r].data.heroes, req[r].q1.chars) # 0
           /\ (IsCompare(req[r]) /\ req[r].q1 = req[r].q2)
                => (req[r].resp.status = 200
                        <=> ResolvedByProjection(req[r].data.heroes, req[r].q1.chars) # 0)

\* C28: GET /api/superheroes/compare runs the compare handler: no request is
\* ever handled by the ':id' route with id = 'compare', so none is answered
\* by that route's 404 text.
C28_CompareRouteFirst ==
    \A r \in Reqs :
        /\ ~(req[r].route = "entity" /\ req[r].q1 = Str(COMPARE))
        /\ (IsCompare(req[r]) /\ Answered(req[r]))
              => req[r].resp # [status |-> 404, type |-> "text",
                                body |-> [text |-> MSG_NOT_FOUND]]

\* GET /api/superheroes/compare with no query, answered by the compare
\* handler's 400.
C28_Witness ==
    /\ IsCompare(req[1]) /\ Answered(req[1])
    /\ req[1].q1 = Missing /\ req[1].q2 = Missing
    /\ req[1].resp = BadRequest

\* What the other projection answers for the id and the array of slot s.
EntityAnswer(s) == EntityLoaded(s.q1.chars, s.data.heroes)
StatlineAnswer(s) == PowerstatsLoaded(s.q1.chars, s.data.heroes)

\* C29: for every id string and catalog, getStatline is not-found exactly
\* when getEntity is, and when found its body is the powerstats field of the
\* entity that getEntity returns.
C29_StatlineAgreesWithEntity ==
    \A r \in Reqs :
        IsProjection(req[r])
        => /\ req[r].route = "powerstats"
                => /\ req[r].resp.status = EntityAnswer(req[r]).status
                   /\ req[r].resp.status \in {200, 404}
                   /\ req[r].resp.status = 200
                        => req[r].resp.body = EntityAnswer(req[r]).body.powerstats
           /\ req[r].route = "entity"
                => /\ req[r].resp.status = StatlineAnswer(req[r]).status
                   /\ req[r].resp.status \in {200, 404}
                   /\ req[r].resp.status = 200
                        => req[r].resp.body.powerstats = StatlineAnswer(req[r]).body

\* GET /api/superheroes/01/powerstats over a catalog holding hero 1: 404, as
\* GET /api/superheroes/01.
C29_Witness ==
    /\ IsProjection(req[1]) /\ req[1].route = "powerstats"
    /\ req[1].q1.chars = <<"0", "1">>
    /\ InCatalog(req[1], FromInt(1))
    /\ req[1].resp.status = 404

\* C30: a compare request that passed validation has called loadSuperheroes
\* once, never again after a failure, and its answer comes from the one array
\* that load gave: 500 if the load failed, 404 if that array lacks one of the
\* ids, and otherwise the values of the two entities of that array, whatever
\* the file holds by then.
C30_SingleSnapshot ==
    \A r \in Reqs :
        (IsCompare(req[r]) /\ Occupied(req[r])
            /\ ~InvalidIds(req[r].id1, req[r].id2))
        => /\ req[r].loads = 1
           /\ LoadFailed(req[r]) => req[r].resp.status = 500
           /\ (Answered(req[r]) /\ req[r].data.ok)
                => IF InCatalog(req[r], req[r].id1) /\ InCatalog(req[r], req[r].id2)
                   THEN /\ req[r].resp.status = 200
                        /\ \A i \in DOMAIN categoriesOrder :
                              LET c == req[r].resp.body.categories[i]
                              IN /\ c.id1_value
                                      = Entity(req[r], req[r].id1).powerstats[c.name]
                                 /\ c.id2_value
                                      = Entity(req[r], req[r].id2).powerstats[c.name]
                   ELSE req[r].resp.status = 404

\* A comparison answered from an array holding both heroes while the file,
\* edited since, no longer holds the second.
C30_Witness ==
    /\ Succeeded(req[1])
    /\ req[1].id1 # req[1].id2
    /\ catalog.ok /\ catalog # req[1].data
    /\ \E i \in DOMAIN catalog.heroes : FromInt(catalog.heroes[i].id) = req[1].id1
    /\ ~\E i \in DOMAIN catalog.heroes : FromInt(catalog.heroes[i].id) = req[1].id2

====
